---- MODULE Spec2Model ----
(***************************************************************************)
(* Model of the dental-record classification and cross-validation scripts: *)
(*   Code/pockets_snapshot.py   six-bucket patient classification (pockets)*)
(*   recessions_snapshots.py    the same classification for recessions     *)
(*   Code/cross_validation.py   record_cells, aggregate_issues, main       *)
(*                                                                         *)
(* A text (cell value, column label, ResearchID, formatted date, label     *)
(* list) is a sequence of one-character strings.  NaN is the null value.   *)
(* A calendar date is <<year, month, day>>.                                *)
(***************************************************************************)
EXTENDS Integers, Sequences, FiniteSets, TLC

VARIABLES
    pc,            \* position of the running script
    pipeline,      \* "pockets" | "recessions" | "cross" | "pattern"
    table,         \* the input table as read from Excel (sequence of rows)
    pool,          \* pockets_data / recessions_data: indices of table still unclassified
    buckets,       \* the six DataFrames of the classification, as sets of row indices
    pickle_df,     \* the hand-off table (sequence of rows with Data_Type)
    missing_df,    \* missing_snapshots_df: the 'Missing Issues' narrative of each ResearchID
    combined_df,   \* the working table of cross_validation.main
    cursor,        \* number of rows of combined_df already handed to record_cells
    summary_df,    \* the aggregated issue fields of each ResearchID
    text,          \* the cell text under test (pattern specification)
    verdict        \* results of the validators on text

vars == <<pc, pipeline, table, pool, buckets, pickle_df, missing_df,
          combined_df, cursor, summary_df, text, verdict>>

(***************************************************************************)
(* Bounds of the model.                                                    *)
(***************************************************************************)
MaxTextLen == 9     \* longest cell text drawn for the validators
MaxRows == 2        \* rows of the input table of a classification script
MaxVisits == 3      \* rows of the pockets table behind the hand-off given to main
MaxLog == 1         \* log items in one 'Missing Issues' narrative

(***************************************************************************)
(* Characters and texts.                                                   *)
(***************************************************************************)
NaN == <<"NaN">>

DigitCh == <<"0", "1", "2", "3", "4", "5", "6", "7", "8", "9">>
Digit == { DigitCh[i] : i \in 1..10 }
Space == {" "}

\* the characters of the model in code-point order; Code is the rank of a character
Ascii == <<" ", "&", "(", ")", ",", "-", "/", "0", "1", "2", "3", "4", "5", "6", "7", "8", "9", "<", ">", "B", "O", "P", "R", "T", "X", "a", "b", "c", "h", "l", "n", "o", "r", "t", "y">>

Code == [ch \in { Ascii[i] : i \in DOMAIN Ascii } |-> CHOOSE i \in DOMAIN Ascii : Ascii[i] = ch]

\* a < b for Python str: the first differing character decides, a proper prefix is smaller
str_lt(a, b) ==
    \E k \in 1..(Len(b)) :
        /\ k <= Len(a) + 1
        /\ \A j \in 1..(k - 1) : a[j] = b[j]
        /\ (k = Len(a) + 1 \/ Code[a[k]] < Code[b[k]])

\* sub in s
contains(s, sub) ==
    \E i \in 1..(Len(s) - Len(sub) + 1) : SubSeq(s, i, i + Len(sub) - 1) = sub

startswith(s, pre) == Len(s) >= Len(pre) /\ SubSeq(s, 1, Len(pre)) = pre

(***************************************************************************)
(* Regular expressions, computed on positions: Rep maps the set P of       *)
(* positions reached so far to the positions reachable after consuming     *)
(* lo..hi characters of class cls.  Position Len(s)+1 is the end.          *)
(***************************************************************************)
Rep(s, P, cls, lo, hi) ==
    { q \in 1..(Len(s) + 1) :
        \E p \in P : /\ q - p >= lo
                     /\ q - p <= hi
                     /\ \A k \in p..(q - 1) : s[k] \in cls }

\* mutant of pattern: up to three whitespace characters between the integers
pattern_wide(s) ==
    LET n  == Len(s)
        p0 == Rep(s, {1}, Space, 0, n)
        p1 == Rep(s, p0, Digit, 1, 2)
        p2 == Rep(s, Rep(s, p1, Space, 1, 3), Digit, 1, 2)
        p3 == Rep(s, Rep(s, p2, Space, 1, 3), Digit, 1, 2)
    IN  (n + 1) \in Rep(s, p3, Space, 0, n)

\* pockets_snapshot.py: pattern = re.compile(r'^\s*\d{1,2}(?:\s{1,2}\d{1,2}){2}\s*$'),
\* used as pattern.match(str(cell))
pattern(s) ==
    LET n  == Len(s)
        p0 == Rep(s, {1}, Space, 0, n)
        p1 == Rep(s, p0, Digit, 1, 2)
        p2 == Rep(s, Rep(s, p1, Space, 1, 2), Digit, 1, 2)
        p3 == Rep(s, Rep(s, p2, Space, 1, 2), Digit, 1, 2)
    IN  (n + 1) \in Rep(s, p3, Space, 0, n)

\* cross_validation.py record_cells: standard_pattern, the same expression
standard_pattern(s) ==
    LET n  == Len(s)
        p0 == Rep(s, {1}, Space, 0, n)
        p1 == Rep(s, p0, Digit, 1, 2)
        p2 == Rep(s, Rep(s, p1, Space, 1, 2), Digit, 1, 2)
        p3 == Rep(s, Rep(s, p2, Space, 1, 2), Digit, 1, 2)
    IN  (n + 1) \in Rep(s, p3, Space, 0, n)

\* recessions_snapshots.py: pattern = re.compile(r'^\s*(\d{1,2})\s+(\d{1,2})\s+(\d{1,2})\s*$')
pattern_recessions(s) ==
    LET n  == Len(s)
        p0 == Rep(s, {1}, Space, 0, n)
        p1 == Rep(s, p0, Digit, 1, 2)
        p2 == Rep(s, Rep(s, p1, Space, 1, n), Digit, 1, 2)
        p3 == Rep(s, Rep(s, p2, Space, 1, n), Digit, 1, 2)
    IN  (n + 1) \in Rep(s, p3, Space, 0, n)

\* r'^\s*$' of the replace(..., np.nan, regex=True) call: empty or whitespace only
blank(s) == \A k \in 1..Len(s) : s[k] \in Space

(***************************************************************************)
(* Cells, rows and tables.                                                 *)
(***************************************************************************)
T345   == <<"3", " ", "4", " ", "5">>                      \* "3 4 5"
Twide  == <<"3", " ", " ", " ", "4", " ", " ", " ", "5">>  \* "3   4   5"
Tabc   == <<"a", "b", "c">>                                \* "abc"
Tblank == <<" ">>                                          \* " "

RawCells == {NaN, T345, Twide, Tabc, Tblank}

Tooth14B == <<"T", "o", "o", "t", "h", " ", "1", "4", " ", "B">>
Tooth14P == <<"T", "o", "o", "t", "h", " ", "1", "4", " ", "P">>

\* column_range = ...loc[:, 'Tooth 18 B':'Tooth 28 P'].columns, cut down to one tooth
column_range == {Tooth14B, Tooth14P}

R1 == <<"R", "1">>
R2 == <<"R", "2">>
ResearchIDs == {R1, R2}

D1 == <<2020, 1, 1>>
D2 == <<2020, 1, 2>>
D3 == <<2020, 6, 1>>

\* a CHART DATE cell of the Excel table: a timestamp, an empty cell or a text
\* that is not a date
Timestamp(d) == [kind |-> "ts", ymd |-> d]
NaT == [kind |-> "NaT", ymd |-> <<0, 0, 0>>]
BadDate == [kind |-> "bad", ymd |-> <<0, 0, 0>>]

\* str(cell): the text of a cell as the patterns see it; str(nan) is "nan"
str(cell) == IF cell = NaN THEN <<"n", "a", "n">> ELSE cell

\* pd.isna / pd.notna on a cell
isna(cell) == cell = NaN
notna(cell) == cell # NaN

\* data[column_range].replace(r'^\s*$', np.nan, regex=True)
replace_blank(rows) ==
    [i \in DOMAIN rows |->
        [rows[i] EXCEPT !.cells =
            [c \in DOMAIN rows[i].cells |->
                IF c \in column_range /\ notna(rows[i].cells[c]) /\ blank(rows[i].cells[c])
                THEN NaN ELSE rows[i].cells[c]]]]

NoBuckets == [no_missing_data |-> {}, systematic_missing_data |-> {},
              consistent_missing_data |-> {}, inconsistent_missing_data |-> {},
              single_observation_data |-> {}, remaining_data |-> {}]

BucketNames == DOMAIN NoBuckets

NoVerdict == [pockets |-> FALSE, cross |-> FALSE, recessions |-> FALSE]

\* data['ResearchID'].unique() of a bucket of the table tbl
unique_ids(tbl, rowset) == { tbl[i].id : i \in rowset }

\* mutant of drop_ids: the pool is not reassigned
drop_ids_kept(tbl, p, ids) == p

\* data[~data['ResearchID'].isin(ids)]; isin finds NaN in ids that hold NaN
drop_ids(tbl, p, ids) == { i \in p : tbl[i].id \notin ids }

(***************************************************************************)
(* The membership tests of the classification scripts.  pipe is the        *)
(* running script, tbl the table and p the pool (the script's global       *)
(* pockets_data / recessions_data) as it stands when the test is applied.  *)
(***************************************************************************)
\* the compiled pattern of the running script
match(pipe, s) == IF pipe = "recessions" THEN pattern_recessions(s) ELSE pattern(s)

\* all(pattern.match(str(row[col])) for col in column_range)
row_matches_pattern(pipe, row) ==
    \A col \in column_range : match(pipe, str(row.cells[col]))

\* pockets: a cell that is not NaN and does not match the pattern
row_does_not_match_pattern_pockets(row) ==
    \E col \in column_range :
        notna(row.cells[col]) /\ ~pattern(str(row.cells[col]))

\* recessions: NaN and "" cells are skipped, any other non-matching cell counts
row_does_not_match_pattern_recessions(row) ==
    \E col \in column_range :
        /\ ~(isna(row.cells[col]) \/ row.cells[col] = <<>>)
        /\ ~pattern_recessions(str(row.cells[col]))

row_does_not_match_pattern(pipe, row) ==
    IF pipe = "recessions" THEN row_does_not_match_pattern_recessions(row)
    ELSE row_does_not_match_pattern_pockets(row)

\* mutant of group_of: the ResearchID is not compared
group_of_pool(tbl, p, research_id) == p

\* group = data[data['ResearchID'] == research_id]; an empty ResearchID (NaN)
\* is equal to no ResearchID, itself included
group_of(tbl, p, research_id) ==
    { i \in p : notna(research_id) /\ tbl[i].id = research_id }

\* group[col].isna().all() and group[col].notna().all()
isna_all(tbl, group, col) == \A i \in group : isna(tbl[i].cells[col])
notna_all(tbl, group, col) == \A i \in group : notna(tbl[i].cells[col])

\* mutant of is_fully_consistent_missing_teeth: the columns are not looked at
is_fully_consistent_any_columns(tbl, p, row) ==
    Cardinality(group_of(tbl, p, row.id)) > 1

is_fully_consistent_missing_teeth(tbl, p, row) ==
    LET group == group_of(tbl, p, row.id)
    IN  IF Cardinality(group) <= 1 THEN FALSE
        ELSE \A col \in column_range :
                \/ isna_all(tbl, group, col)
                \/ ~(~isna_all(tbl, group, col) /\ ~notna_all(tbl, group, col))

\* mutant of is_inconsistent_missing_teeth: a column with an empty cell is
\* enough, whatever the number of visits
is_inconsistent_any_length(tbl, p, row) ==
    \E col \in column_range : ~notna_all(tbl, group_of(tbl, p, row.id), col)

is_inconsistent_missing_teeth(tbl, p, row) ==
    LET group == group_of(tbl, p, row.id)
    IN  IF Cardinality(group) <= 1 THEN FALSE
        ELSE \E col \in column_range :
                ~isna_all(tbl, group, col) /\ ~notna_all(tbl, group, col)

\* mutant of single_observation_filter: groups of two rows
single_observation_filter_pairs(tbl, p) ==
    { i \in p : Cardinality({ j \in p : tbl[j].id = tbl[i].id }) = 2 }

\* data.groupby('ResearchID').filter(lambda x: len(x) == 1); groupby leaves
\* out the rows whose key is NaN
single_observation_filter(tbl, p) ==
    { i \in p : notna(tbl[i].id)
                /\ Cardinality({ j \in p : tbl[j].id = tbl[i].id }) = 1 }

\* the six sections of the script: the bucket each section selects from the pool
select(pipe, tbl, p, section) ==
    CASE section = "no_missing_data" ->
            { i \in p : row_matches_pattern(pipe, tbl[i]) }
      [] section = "systematic_missing_data" ->
            { i \in p : row_does_not_match_pattern(pipe, tbl[i]) }
      [] section = "consistent_missing_data" ->
            { i \in p : is_fully_consistent_missing_teeth(tbl, p, tbl[i]) }
      [] section = "inconsistent_missing_data" ->
            { i \in p : is_inconsistent_missing_teeth(tbl, p, tbl[i]) }
      [] section = "single_observation_data" ->
            single_observation_filter(tbl, p)
      [] section = "remaining_data" -> p

(***************************************************************************)
(* The classification scripts, one action per section of the script.       *)
(***************************************************************************)
Rows == [id : ResearchIDs, date : {Timestamp(D1)}, cells : [column_range -> RawCells]]

Tables == UNION { [1..n -> Rows] : n \in 1..MaxRows }

InitClassify ==
    /\ pc = "load"
    /\ pipeline \in {"pockets", "recessions"}
    /\ table \in { t \in Tables : t[1].id = R1 }
    /\ pool = {}
    /\ buckets = NoBuckets
    /\ pickle_df = <<>> /\ missing_df = <<>> /\ combined_df = <<>>
    /\ cursor = 0 /\ summary_df = <<>>
    /\ text = <<>> /\ verdict = NoVerdict

Untouched == UNCHANGED <<pipeline, missing_df, combined_df, cursor, summary_df,
                         text, verdict>>

\* read_excel and the standardisation of blank cells
Load ==
    /\ pc = "load"
    /\ table' = replace_blank(table)
    /\ pool' = DOMAIN table
    /\ pc' = "datatype1"
    /\ UNCHANGED <<buckets, pickle_df>>
    /\ Untouched

\* mutant of Section: only the selected rows are taken out of the pool
Section_rows(section, next) ==
    /\ LET data == select(pipeline, table, pool, section)
       IN  /\ buckets' = [buckets EXCEPT ![section] = data]
           /\ pool' = pool \ data
    /\ pc' = next
    /\ UNCHANGED <<table, pickle_df>>
    /\ Untouched

\* one section: select the bucket, take its ResearchIDs out of the pool
Section(section, next) ==
    /\ LET data == select(pipeline, table, pool, section)
           ids  == unique_ids(table, data)
       IN  /\ buckets' = [buckets EXCEPT ![section] = data]
           /\ pool' = drop_ids(table, pool, ids)
    /\ pc' = next
    /\ UNCHANGED <<table, pickle_df>>
    /\ Untouched

Datatype1 == pc = "datatype1" /\ Section("no_missing_data", "datatype2")

Datatype2 == pc = "datatype2" /\ Section("systematic_missing_data", "datatype3")

Datatype3 == pc = "datatype3" /\ Section("consistent_missing_data", "datatype4")

Datatype4 == pc = "datatype4" /\ Section("inconsistent_missing_data", "datatype5")

Datatype5 == pc = "datatype5" /\ Section("single_observation_data", "datatype6")

\* remaining_data = pockets_data: the pool is left as it is
Datatype6 ==
    /\ pc = "datatype6"
    /\ buckets' = [buckets EXCEPT !.remaining_data = pool]
    /\ pc' = "classified"
    /\ UNCHANGED <<table, pool, pickle_df>>
    /\ Untouched

NextClassify ==
    \/ Load
    \/ Datatype1
    \/ Datatype2
    \/ Datatype3
    \/ Datatype4
    \/ Datatype5
    \/ Datatype6

SpecClassify == InitClassify /\ [][NextClassify]_vars

(***************************************************************************)
(* The classification scripts on a table with rows whose ResearchID cell   *)
(* is empty: for such a row the group of its patient has no row at all.    *)
(***************************************************************************)
NoIdRows == [id : {R1, NaN}, date : {Timestamp(D1)},
             cells : [column_range -> {NaN, T345, Tabc}]]

InitNoId ==
    /\ pc = "load"
    /\ pipeline \in {"pockets", "recessions"}
    /\ table \in UNION { [1..n -> NoIdRows] : n \in 1..MaxRows }
    /\ pool = {}
    /\ buckets = NoBuckets
    /\ pickle_df = <<>> /\ missing_df = <<>> /\ combined_df = <<>>
    /\ cursor = 0 /\ summary_df = <<>>
    /\ text = <<>> /\ verdict = NoVerdict

\* the sections are those of the classification scripts
SpecNoId == InitNoId /\ [][NextClassify]_vars

(***************************************************************************)
(* Properties of the classification.                                       *)
(***************************************************************************)
\* the patients of the input table and their visits
patients == { table[j].id : j \in DOMAIN table }
visits_of(id) == { j \in DOMAIN table : table[j].id = id }

\* CellState of the data model, decided by the validator of the running script
WellFormed(cell) == notna(cell) /\ match(pipeline, str(cell))
MalformedText(cell) == notna(cell) /\ ~match(pipeline, str(cell))

categories_of(id) == { b \in BucketNames : id \in unique_ids(table, buckets[b]) }

\* C1: when a classification script has run, every patient of the input table
\* is in exactly one of the six buckets.
C1_ExactlyOneBucket ==
    pc = "classified" =>
        \A id \in patients : Cardinality(categories_of(id)) = 1

C1_Witness ==
    /\ pc = "classified"
    /\ categories_of(R1) = {"systematic_missing_data"}
    /\ categories_of(R2) = {"single_observation_data"}

\* C2: a patient in the No Missing bucket has every cell of every visit
\* WellFormed.
C2_NoMissingEveryVisit ==
    pc = "classified" =>
        \A id \in unique_ids(table, buckets.no_missing_data) :
            \A j \in visits_of(id) :
                \A col \in column_range : WellFormed(table[j].cells[col])

\* C3: (pockets) a patient with a MalformedText cell in any visit is in the
\* Systematic Missing bucket.
C3_MalformedIsSystematic ==
    (pc = "classified" /\ pipeline = "pockets") =>
        \A id \in patients :
            (\E j \in visits_of(id) : \E col \in column_range :
                MalformedText(table[j].cells[col]))
            => id \in unique_ids(table, buckets.systematic_missing_data)

\* a column that is Absent in one visit of the patient and present in another
Mixed(id, col) ==
    /\ \E j \in visits_of(id) : isna(table[j].cells[col])
    /\ \E j \in visits_of(id) : notna(table[j].cells[col])

\* C4: (pockets) a patient with more than one visit, no MalformedText cell and
\* a column Absent in one visit and present in another is in the Inconsistent
\* Missing bucket.
C4_MixedIsInconsistent ==
    (pc = "classified" /\ pipeline = "pockets") =>
        \A id \in patients :
            ( /\ Cardinality(visits_of(id)) > 1
              /\ \A j \in visits_of(id) : \A col \in column_range :
                    ~MalformedText(table[j].cells[col])
              /\ \E col \in column_range : Mixed(id, col) )
            => id \in unique_ids(table, buckets.inconsistent_missing_data)

(***************************************************************************)
(* The validators applied to one text (pattern specification).             *)
(***************************************************************************)
TextChars == {"1", " ", "a"}

Texts == UNION { [1..n -> TextChars] : n \in 0..MaxTextLen }

InitPattern ==
    /\ pc = "start"
    /\ pipeline = "pattern"
    /\ text \in Texts
    /\ verdict = NoVerdict
    /\ table = <<>> /\ pool = {} /\ buckets = NoBuckets /\ pickle_df = <<>>
    /\ missing_df = <<>> /\ combined_df = <<>> /\ cursor = 0 /\ summary_df = <<>>

MatchText ==
    /\ pipeline = "pattern"
    /\ pc = "start"
    /\ pc' = "done"
    /\ verdict' = [pockets    |-> pattern(text),
                   cross      |-> standard_pattern(text),
                   recessions |-> pattern_recessions(text)]
    /\ UNCHANGED <<pipeline, table, pool, buckets, pickle_df, missing_df,
                   combined_df, cursor, summary_df, text>>

NextPattern == MatchText

SpecPattern == InitPattern /\ [][NextPattern]_vars

(***************************************************************************)
(* Properties of the validators.                                           *)
(***************************************************************************)
\* text.strip(): leading and trailing whitespace removed
strip(s) ==
    IF \A k \in 1..Len(s) : s[k] \in Space THEN <<>>
    ELSE LET first == CHOOSE i \in 1..Len(s) :
                        s[i] \notin Space /\ \A k \in 1..(i - 1) : s[k] \in Space
             last  == CHOOSE i \in 1..Len(s) :
                        s[i] \notin Space /\ \A k \in (i + 1)..Len(s) : s[k] \in Space
         IN  SubSeq(s, first, last)

\* three integers of 1-2 digits separated by one or two whitespace characters
ThreeIntegers(t) ==
    \E a, b, c \in 1..2 : \E g, h \in 1..2 :
        /\ Len(t) = a + g + b + h + c
        /\ \A k \in 1..Len(t) :
            IF \/ k <= a
               \/ (k > a + g /\ k <= a + g + b)
               \/ k > a + g + b + h
            THEN t[k] \in Digit ELSE t[k] \in Space

Ex_9_10_11      == <<"9", " ", "1", "0", " ", "1", "1">>
Ex_9__10__11    == <<"9", " ", " ", "1", "0", " ", " ", "1", "1">>
Ex_9_10         == <<"9", " ", "1", "0">>

\* the examples of the contract
PatternExamples ==
    /\ pattern(Ex_9_10_11) /\ standard_pattern(Ex_9_10_11)
    /\ pattern(Ex_9__10__11) /\ standard_pattern(Ex_9__10__11)
    /\ ~pattern(Ex_9_10) /\ ~standard_pattern(Ex_9_10)
    /\ ~pattern(Tabc) /\ ~standard_pattern(Tabc)
    /\ ~pattern(<<>>) /\ ~standard_pattern(<<>>)

\* C10: the pockets pattern and the cross-validator's standard_pattern accept
\* a text iff its trimmed form is three 1-2-digit integers separated by one or
\* two whitespace characters; "9 10 11" and "9  10  11" are accepted, "9 10",
\* "abc" and "" are not.
C10_PatternValidator ==
    /\ pc = "done" =>
        /\ verdict.pockets = ThreeIntegers(strip(text))
        /\ verdict.cross = ThreeIntegers(strip(text))
    /\ PatternExamples

C10_Witness ==
    /\ pc = "done"
    /\ text = <<"1", " ", " ", "1", "1", " ", " ", "1", "1">>
    /\ verdict.pockets /\ verdict.cross

(***************************************************************************)
(* Dates and their texts.                                                  *)
(***************************************************************************)
Pad2(n) == <<DigitCh[(n \div 10) + 1], DigitCh[(n % 10) + 1]>>
Pad4(n) == Pad2(n \div 100) \o Pad2(n % 100)

\* Timestamp.strftime('%Y-%m-%d')
strftime(d) == Pad4(d[1]) \o <<"-">> \o Pad2(d[2]) \o <<"-">> \o Pad2(d[3])

DigitVal(ch) == (CHOOSE i \in 1..10 : DigitCh[i] = ch) - 1
Num2(s, i) == 10 * DigitVal(s[i]) + DigitVal(s[i + 1])

\* mutant of strptime: the text is read as year-day-month
strptime_day_first(s) == <<100 * Num2(s, 1) + Num2(s, 3), Num2(s, 9), Num2(s, 6)>>

\* datetime.strptime(s, '%Y-%m-%d') of a text of the form dddd-dd-dd
strptime(s) == <<100 * Num2(s, 1) + Num2(s, 3), Num2(s, 6), Num2(s, 9)>>

\* mutant of date_le: strictly earlier
date_lt(a, b) ==
    \/ a[1] < b[1]
    \/ a[1] = b[1] /\ a[2] < b[2]
    \/ a[1] = b[1] /\ a[2] = b[2] /\ a[3] < b[3]

\* missing_date <= chart_date on datetime values
date_le(a, b) ==
    \/ a[1] < b[1]
    \/ a[1] = b[1] /\ a[2] < b[2]
    \/ a[1] = b[1] /\ a[2] = b[2] /\ a[3] <= b[3]

(***************************************************************************)
(* Text helpers of the cross-validation.                                   *)
(***************************************************************************)
S_Tooth  == <<"T", "o", "o", "t", "h", " ">>
S_Comma  == <<",", " ">>
S_br     == <<"<", "b", "r", ">">>
S_BandP  == <<" ", "-", " ", "B", " ", "&", " ", "P", " ", "-", " ">>
S_OnlyP  == <<" ", "-", " ", "O", "n", "l", "y", " ", "P", " ", "-", " ">>
S_OnlyB  == <<" ", "-", " ", "O", "n", "l", "y", " ", "B", " ", "-", " ">>
S_OpenB  == <<" ", "-", " ", "(", "B", " ", "-", " ">>
S_MidP   == <<")", " ", "/", " ", "(", "P", " ", "-", " ">>
S_Close  == <<")">>

None == <<>>

RECURSIVE join(_, _)
\* sep.join(seq)
join(seq, sep) ==
    IF seq = <<>> THEN <<>>
    ELSE IF Len(seq) = 1 THEN seq[1]
    ELSE seq[1] \o sep \o join(Tail(seq), sep)

RECURSIVE split(_, _)
\* s.split(sep)
split(s, sep) ==
    LET hits == { i \in 1..(Len(s) - Len(sep) + 1) : SubSeq(s, i, i + Len(sep) - 1) = sep }
    IN  IF hits = {} THEN <<s>>
        ELSE LET i == CHOOSE h \in hits : \A g \in hits : h <= g
             IN  <<SubSeq(s, 1, i - 1)>> \o split(SubSeq(s, i + Len(sep), Len(s)), sep)

\* s.strip() and s.strip(chars)
strip_chars(s, chars) ==
    IF \A k \in 1..Len(s) : s[k] \in chars THEN <<>>
    ELSE LET first == CHOOSE i \in 1..Len(s) :
                        s[i] \notin chars /\ \A k \in 1..(i - 1) : s[k] \in chars
             last  == CHOOSE i \in 1..Len(s) :
                        s[i] \notin chars /\ \A k \in (i + 1)..Len(s) : s[k] \in chars
         IN  SubSeq(s, first, last)

RECURSIVE sorted(_)
\* sorted(S) of a set of texts
sorted(S) ==
    IF S = {} THEN <<>>
    ELSE LET least == CHOOSE a \in S : \A b \in S : ~str_lt(b, a)
         IN  <<least>> \o sorted(S \ {least})

RECURSIVE ascending(_)
\* the row indices of a DataFrame in index order
ascending(S) ==
    IF S = {} THEN <<>>
    ELSE LET least == CHOOSE a \in S : \A b \in S : a <= b
         IN  <<least>> \o ascending(S \ {least})

(***************************************************************************)
(* pockets_snapshot.py: the hand-off table.                                *)
(***************************************************************************)
Data_Type == [no_missing_data           |-> "No Missing Data",
              systematic_missing_data   |-> "Systematic Missing Data",
              consistent_missing_data   |-> "Consistent Missing Data",
              inconsistent_missing_data |-> "Inconsistent Missing Data",
              single_observation_data   |-> "Single Observation Data",
              remaining_data            |-> "Other (Remaining Data)"]

\* the order of the frames in pd.concat
concat_order == <<"no_missing_data", "systematic_missing_data", "consistent_missing_data",
                  "inconsistent_missing_data", "single_observation_data", "remaining_data">>

\* one bucket with its Data_Type column, rows in index order
typed(tbl, bks, name) ==
    LET idx == ascending(bks[name])
    IN  [k \in 1..Len(idx) |->
            [id |-> tbl[idx[k]].id, date |-> tbl[idx[k]].date,
             cells |-> tbl[idx[k]].cells, Data_Type |-> Data_Type[name]]]

\* pd.concat([...], ignore_index=True)
concat(tbl, bks) ==
    typed(tbl, bks, concat_order[1]) \o typed(tbl, bks, concat_order[2]) \o
    typed(tbl, bks, concat_order[3]) \o typed(tbl, bks, concat_order[4]) \o
    typed(tbl, bks, concat_order[5]) \o typed(tbl, bks, concat_order[6])

\* Data_Type columns, concatenation and pickle.dump
Handoff ==
    /\ pc = "classified"
    /\ pipeline = "pockets"
    /\ pickle_df' = concat(table, buckets)
    /\ pc' = "main"
    /\ UNCHANGED <<table, pool, buckets>>
    /\ Untouched

RECURSIVE run_sections(_, _, _, _, _)
\* the six sections run one after the other on the table tbl: the final buckets
run_sections(pipe, tbl, p, bks, k) ==
    IF k > Len(concat_order) THEN bks
    ELSE LET data == select(pipe, tbl, p, concat_order[k])
         IN  run_sections(pipe, tbl, drop_ids(tbl, p, unique_ids(tbl, data)),
                          [bks EXCEPT ![concat_order[k]] = data], k + 1)

\* the hand-off table the pockets script writes for the Excel table tbl
pockets_pickle(tbl) ==
    LET std == replace_blank(tbl)
    IN  concat(std, run_sections("pockets", std, DOMAIN std, NoBuckets, 1))

(***************************************************************************)
(* The Missing-Log narrative of a patient: the text missing_snapshots.py   *)
(* joins from the items 'date - column - value', and its parsing in        *)
(* cross_validation.py.  An item names the tooth by its code ('T14') or in *)
(* words ('Tooth 14').                                                     *)
(***************************************************************************)
Letter == { <<"A", "B", "C", "D", "E", "F", "G", "H", "I", "J", "K", "L", "M", "N", "O", "P", "Q", "R", "S", "T", "U", "V", "W", "X", "Y", "Z", "a", "b", "c", "d", "e", "f", "g", "h", "i", "j", "k", "l", "m", "n", "o", "p", "q", "r", "s", "t", "u", "v", "w", "x", "y", "z">>[k] : k \in 1..52 }

\* \w of the regular expressions
Word == Letter \cup Digit \cup {"_"}

S_Sep     == <<" ", "-", " ">>
S_Missing == <<"M", "i", "s", "s", "i", "n", "g">>
S_NoMissingTeeth == <<"N", "o", " ", "m", "i", "s", "s", "i", "n", "g", " ", "t", "e", "e", "t", "h">>

\* f"{row['CHART DATE']} - {row['Tooth_Column']} - {row['Value']}"
item_text(it) ==
    it.date \o S_Sep \o (IF it.form = "T" THEN <<"T">> ELSE S_Tooth) \o it.tooth
        \o S_Sep \o S_Missing

\* "<br>".join(...) of the items; fillna("No missing teeth") without items
narrative_text(items) ==
    IF items = <<>> THEN S_NoMissingTeeth
    ELSE join([k \in DOMAIN items |-> item_text(items[k])], S_br)

\* a Missing Issues cell: NaN or a text
NoNarrative == [isstr |-> FALSE, text |-> <<>>]
Str(t) == [isstr |-> TRUE, text |-> t]
Narrative(items) == Str(narrative_text(items))

\* the number of digits of the tooth code \bT(\d{1,2})\b at position i, 0 when
\* there is none
code_at(t, i) ==
    LET run(n) == i + n <= Len(t) /\ \A k \in (i + 1)..(i + n) : t[k] \in Digit
        edge(n) == i + n = Len(t) \/ t[i + n + 1] \notin Word
    IN  IF t[i] = "T" /\ (i = 1 \/ t[i - 1] \notin Word)
        THEN IF run(2) /\ edge(2) THEN 2
             ELSE IF run(1) /\ edge(1) THEN 1
             ELSE 0
        ELSE 0

RECURSIVE sub_from(_, _)
\* the text from position i on, with every tooth code rewritten, leftmost first
sub_from(t, i) ==
    LET hits == { j \in i..Len(t) : code_at(t, j) > 0 }
    IN  IF hits = {} THEN SubSeq(t, i, Len(t))
        ELSE LET j == CHOOSE h \in hits : \A g \in hits : h <= g
             IN  SubSeq(t, i, j - 1) \o S_Tooth \o SubSeq(t, j + 1, j + code_at(t, j))
                    \o sub_from(t, j + code_at(t, j) + 1)

\* mutant of replace_tooth_codes: the text is left as it is
replace_tooth_codes_skipped(t) == t

\* re.sub(r'\bT(\d{1,2})\b', r'Tooth \1', text)
replace_tooth_codes(t) == sub_from(t, 1)

\* the length of the match of (\d{4}-\d{2}-\d{2}) - Tooth (\d{1,2}) at position
\* i, 0 when there is none
entry_at(t, i) ==
    IF /\ i + 19 <= Len(t)
       /\ \A k \in {0, 1, 2, 3, 5, 6, 8, 9} : t[i + k] \in Digit
       /\ t[i + 4] = "-" /\ t[i + 7] = "-"
       /\ SubSeq(t, i + 10, i + 12) = S_Sep
       /\ SubSeq(t, i + 13, i + 18) = S_Tooth
       /\ t[i + 19] \in Digit
    THEN IF i + 20 <= Len(t) /\ t[i + 20] \in Digit THEN 21 ELSE 20
    ELSE 0

RECURSIVE findall_from(_, _)
\* re.findall: the groups of the matches from position i on, from left to right
findall_from(t, i) ==
    LET hits == { j \in i..Len(t) : entry_at(t, j) > 0 }
    IN  IF hits = {} THEN <<>>
        ELSE LET j == CHOOSE h \in hits : \A g \in hits : h <= g
             IN  <<[date |-> SubSeq(t, j, j + 9),
                    tooth |-> SubSeq(t, j + 19, j + entry_at(t, j) - 1)]>>
                    \o findall_from(t, j + entry_at(t, j))

\* the list of (datetime, tooth) of a Missing Issues cell; [] when not a string
extract_missing_teeth_with_dates(missing_issues) ==
    IF missing_issues.isstr
    THEN LET matches == findall_from(missing_issues.text, 1)
         IN  [k \in DOMAIN matches |->
                [date |-> strptime(matches[k].date), tooth |-> matches[k].tooth]]
    ELSE <<>>

(***************************************************************************)
(* cross_validation.py: record_cells.                                      *)
(***************************************************************************)
IssueKinds == {"missing_pockets_and_record", "missing_pockets_not_record",
               "missing_pockets_other_issue", "integer_error"}

NoLabels == [k \in IssueKinds |-> <<>>]

\* col.startswith("Tooth") and (" P" in col or " B" in col)
is_tooth_column(col) ==
    startswith(col, <<"T", "o", "o", "t", "h">>) /\ (contains(col, <<" ", "P">>) \/ contains(col, <<" ", "B">>))

\* mutant of search_tooth: any character after 'Tooth ' is taken for the number
search_tooth_any(col) ==
    IF Len(col) >= 7 /\ SubSeq(col, 1, 6) = S_Tooth THEN SubSeq(col, 7, 7) ELSE None

\* re.search(r'Tooth (\d{1,2})', col): group(1), None when there is no match
search_tooth(col) ==
    LET hits == { i \in 1..Len(col) :
                    /\ i + 6 <= Len(col)
                    /\ SubSeq(col, i, i + 5) = S_Tooth
                    /\ col[i + 6] \in Digit }
    IN  IF hits = {} THEN None
        ELSE LET i == CHOOSE h \in hits : \A g \in hits : h <= g
             IN  IF i + 7 <= Len(col) /\ col[i + 7] \in Digit
                 THEN SubSeq(col, i + 6, i + 7)
                 ELSE SubSeq(col, i + 6, i + 6)

\* mutant of is_missing_tooth: the date of the entry is not compared
is_missing_tooth_any_date(row, tooth_num) ==
    \E k \in DOMAIN row.missing_teeth_with_dates :
        row.missing_teeth_with_dates[k].tooth = tooth_num

\* any(tooth == tooth_num and missing_date <= chart_date for ...)
is_missing_tooth(row, tooth_num) ==
    \E k \in DOMAIN row.missing_teeth_with_dates :
        /\ row.missing_teeth_with_dates[k].tooth = tooth_num
        /\ date_le(row.missing_teeth_with_dates[k].date, strptime(row.date))

\* mutant of in_log: an entry for any tooth counts
in_log_any_tooth(row, tooth_num) == row.missing_teeth_with_dates # <<>>

\* any(tooth == tooth_num for _, tooth in missing_teeth_dates)
in_log(row, tooth_num) ==
    \E k \in DOMAIN row.missing_teeth_with_dates :
        row.missing_teeth_with_dates[k].tooth = tooth_num

\* mutant of cell_issues: the malformed check does not end the column
\* (the loop body of the older record_cells)
cell_issues_no_continue(row, col) ==
    LET tooth_num == search_tooth(col)
        cell_value == row.cells[col]
    IN  IF tooth_num = None THEN {}
        ELSE (IF notna(cell_value) /\ ~standard_pattern(str(cell_value))
              THEN {"integer_error"} ELSE {})
             \cup
             (IF is_missing_tooth(row, tooth_num) THEN {"missing_pockets_and_record"}
              ELSE IF isna(cell_value)
                   THEN (IF ~in_log(row, tooth_num) THEN {"missing_pockets_not_record"}
                         ELSE {"missing_pockets_other_issue"})
                   ELSE {})

\* the body of the loop over the columns: the issue sets col is added to
cell_issues(row, col) ==
    LET tooth_num == search_tooth(col)
        cell_value == row.cells[col]
    IN  IF tooth_num = None THEN {}
        ELSE IF notna(cell_value) /\ ~standard_pattern(str(cell_value))
             THEN {"integer_error"}
        ELSE IF is_missing_tooth(row, tooth_num)
             THEN {"missing_pockets_and_record"}
        ELSE IF isna(cell_value)
             THEN (IF ~in_log(row, tooth_num) THEN {"missing_pockets_not_record"}
                   ELSE {"missing_pockets_other_issue"})
        ELSE {}

\* mutant of issue_set: a column with an issue is added to each of the sets
issue_set_overlapping(row, kind) ==
    { col \in DOMAIN row.cells : is_tooth_column(col) /\ cell_issues(row, col) # {} }

\* the four sets after the loop
issue_set(row, kind) ==
    { col \in DOMAIN row.cells : is_tooth_column(col) /\ kind \in cell_issues(row, col) }

\* the orders in which the elements of a Python set can be iterated
iterations(S) ==
    { seq \in [1..Cardinality(S) -> S] : \A c \in S : \E k \in DOMAIN seq : seq[k] = c }

\* the iteration orders of the four sets of a row, one order for each set
iteration_orders(row) ==
    { [missing_pockets_and_record |-> a, missing_pockets_not_record |-> b,
       missing_pockets_other_issue |-> c, integer_error |-> d] :
        a \in iterations(issue_set(row, "missing_pockets_and_record")),
        b \in iterations(issue_set(row, "missing_pockets_not_record")),
        c \in iterations(issue_set(row, "missing_pockets_other_issue")),
        d \in iterations(issue_set(row, "integer_error")) }

\* mutant of record_cells: the sets are joined in the order they are iterated in
record_cells_unsorted(row, order) ==
    [kind \in IssueKinds |-> join(order[kind], S_Comma)]

\* the four fields written to the row: ', '.join(sorted(set)), where sorted
\* reads the set in the order it is iterated in
record_cells(row, order) ==
    [kind \in IssueKinds |->
        join(sorted({ order[kind][k] : k \in DOMAIN order[kind] }), S_Comma)]

(***************************************************************************)
(* cross_validation.py: main, up to the label columns.                     *)
(***************************************************************************)
\* mutant of merge: the narrative is attached to the first row only
merge_first_row(left, right) ==
    [k \in DOMAIN left |->
        [id |-> left[k].id, date |-> left[k].date, cells |-> left[k].cells,
         Data_Type |-> left[k].Data_Type,
         missing_issues |->
            IF k = 1 /\ \E j \in DOMAIN right : right[j].id = left[k].id
            THEN right[CHOOSE j \in DOMAIN right : right[j].id = left[k].id].missing_issues
            ELSE NoNarrative]]

\* pockets_snapshots_df.merge(missing_snapshots_df[[ResearchID, Missing Issues]],
\*                            on='ResearchID', how='left')
merge(left, right) ==
    [k \in DOMAIN left |->
        [id |-> left[k].id, date |-> left[k].date, cells |-> left[k].cells,
         Data_Type |-> left[k].Data_Type,
         missing_issues |->
            IF \E j \in DOMAIN right : right[j].id = left[k].id
            THEN right[CHOOSE j \in DOMAIN right : right[j].id = left[k].id].missing_issues
            ELSE NoNarrative]]

\* pd.to_datetime(...).dt.strftime('%Y-%m-%d') on a cell that parses
chart_date_text(date) == IF date.kind = "ts" THEN strftime(date.ymd) ELSE NaN

\* the order of sort_values(by=['ResearchID', 'CHART DATE']): missing dates last
key_lt(a, b) ==
    \/ str_lt(a.id, b.id)
    \/ /\ a.id = b.id
       /\ notna(a.date)
       /\ (isna(b.date) \/ str_lt(a.date, b.date))

key_eq(a, b) == a.id = b.id /\ a.date = b.date

\* sort_values(...).reset_index(drop=True): a stable sort
sort_values(df) ==
    LET before(j, i) == key_lt(df[j], df[i]) \/ (key_eq(df[j], df[i]) /\ j < i)
        place(i) == 1 + Cardinality({ j \in DOMAIN df : before(j, i) })
    IN  [k \in DOMAIN df |-> df[CHOOSE i \in DOMAIN df : place(i) = k]]

\* lines 676-687: tooth codes, date texts, sort, log entries, empty label columns
clean(df) ==
    LET coded == [k \in DOMAIN df |->
                    [df[k] EXCEPT !.missing_issues =
                                    IF @.isstr THEN Str(replace_tooth_codes(@.text)) ELSE @,
                                  !.date = chart_date_text(@)]]
        ordered == sort_values(coded)
    IN  [k \in DOMAIN ordered |->
            [id |-> ordered[k].id, date |-> ordered[k].date, cells |-> ordered[k].cells,
             Data_Type |-> ordered[k].Data_Type,
             missing_issues |-> ordered[k].missing_issues,
             missing_teeth_with_dates |->
                extract_missing_teeth_with_dates(ordered[k].missing_issues),
             labels |-> NoLabels]]

Merge ==
    /\ pc = "main"
    /\ combined_df' = merge(pickle_df, missing_df)
    /\ pc' = "merged"
    /\ UNCHANGED <<pipeline, table, pool, buckets, pickle_df, missing_df, cursor,
                   summary_df, text, verdict>>

\* every CHART DATE parses or is empty
Clean ==
    /\ pc = "merged"
    /\ \A k \in DOMAIN combined_df : combined_df[k].date.kind # "bad"
    /\ combined_df' = clean(combined_df)
    /\ cursor' = 1
    /\ pc' = "cleaned"
    /\ UNCHANGED <<pipeline, table, pool, buckets, pickle_df, missing_df,
                   summary_df, text, verdict>>

\* pd.to_datetime raises on a text that is not a date: main ends with the exception
CleanRaises ==
    /\ pc = "merged"
    /\ \E k \in DOMAIN combined_df : combined_df[k].date.kind = "bad"
    /\ pc' = "raised"
    /\ UNCHANGED <<pipeline, table, pool, buckets, pickle_df, missing_df, combined_df,
                   cursor, summary_df, text, verdict>>

\* mutant of RecordCells: the labels are written to every row of the patient
RecordCells_patient ==
    /\ pc = "cleaned"
    /\ cursor \in DOMAIN combined_df
    /\ notna(combined_df[cursor].date)
    /\ \E order \in iteration_orders(combined_df[cursor]) :
        combined_df' = [k \in DOMAIN combined_df |->
                            IF combined_df[k].id = combined_df[cursor].id
                            THEN [combined_df[k] EXCEPT
                                    !.labels = record_cells(combined_df[cursor], order)]
                            ELSE combined_df[k]]
    /\ cursor' = cursor + 1
    /\ UNCHANGED <<pc, pipeline, table, pool, buckets, pickle_df, missing_df,
                   summary_df, text, verdict>>

\* combined_df.apply(record_cells, axis=1): the call for the row at the cursor
RecordCells ==
    /\ pc = "cleaned"
    /\ cursor \in DOMAIN combined_df
    /\ notna(combined_df[cursor].date)
    /\ \E order \in iteration_orders(combined_df[cursor]) :
        combined_df' = [combined_df EXCEPT
                            ![cursor].labels = record_cells(combined_df[cursor], order)]
    /\ cursor' = cursor + 1
    /\ UNCHANGED <<pc, pipeline, table, pool, buckets, pickle_df, missing_df,
                   summary_df, text, verdict>>

\* datetime.strptime(nan, '%Y-%m-%d') raises TypeError: main ends with the exception
RecordCellsRaises ==
    /\ pc = "cleaned"
    /\ cursor \in DOMAIN combined_df
    /\ isna(combined_df[cursor].date)
    /\ pc' = "raised"
    /\ UNCHANGED <<pipeline, table, pool, buckets, pickle_df, missing_df, combined_df,
                   cursor, summary_df, text, verdict>>

(***************************************************************************)
(* cross_validation.py: aggregate_issues.                                  *)
(***************************************************************************)
\* re.match(r'Tooth (\d{1,2}) (P|B)', item): the groups, None when no match
match_tooth_side(item) ==
    LET ok(n) == /\ Len(item) >= 6 + n + 2
                 /\ SubSeq(item, 1, 6) = S_Tooth
                 /\ \A k \in 7..(6 + n) : item[k] \in Digit
                 /\ item[6 + n + 1] = " "
                 /\ item[6 + n + 2] \in {"P", "B"}
        groups(n) == [tooth |-> SubSeq(item, 7, 6 + n), side |-> item[6 + n + 2]]
    IN  IF ok(2) THEN groups(2)
        ELSE IF ok(1) THEN groups(1)
        ELSE None

\* mutant of record_first: a later date replaces the recorded one
record_last(tooth_dict, tooth, side, date_str) ==
    { e \in tooth_dict : ~(e.tooth = tooth /\ e.side = side) }
        \cup {[tooth |-> tooth, side |-> side, date |-> date_str]}

\* if side not in tooth_dict[tooth]: tooth_dict[tooth][side] = date_str
record_first(tooth_dict, tooth, side, date_str) ==
    IF \E e \in tooth_dict : e.tooth = tooth /\ e.side = side
    THEN tooth_dict
    ELSE tooth_dict \cup {[tooth |-> tooth, side |-> side, date |-> date_str]}

RECURSIVE scan_entries(_, _, _, _)
\* for item in entries
scan_entries(tooth_dict, entries, k, date_str) ==
    IF k > Len(entries) THEN tooth_dict
    ELSE LET m == match_tooth_side(strip_chars(entries[k], Space))
         IN  scan_entries(IF m = None THEN tooth_dict
                          ELSE record_first(tooth_dict, m.tooth, m.side, date_str),
                          entries, k + 1, date_str)

RECURSIVE scan_rows(_, _, _, _)
\* for _, row in unique_entries.iterrows()
scan_rows(tooth_dict, group, k, kind) ==
    IF k > Len(group) THEN tooth_dict
    ELSE scan_rows(scan_entries(tooth_dict, split(group[k].labels[kind], S_Comma), 1,
                                group[k].date),
                   group, k + 1, kind)

\* mutant of format_tooth: two sides are always written with their own dates
format_tooth_separate(tooth_dict, tooth) ==
    LET sides == { e.side : e \in { x \in tooth_dict : x.tooth = tooth } }
        date(side) == (CHOOSE e \in tooth_dict : e.tooth = tooth /\ e.side = side).date
    IN  IF "P" \in sides /\ "B" \in sides
        THEN S_Tooth \o tooth \o S_OpenB \o date("B") \o S_MidP \o date("P") \o S_Close
        ELSE IF "P" \in sides THEN S_Tooth \o tooth \o S_OnlyP \o date("P")
        ELSE S_Tooth \o tooth \o S_OnlyB \o date("B")

\* one formatted line of a tooth
format_tooth(tooth_dict, tooth) ==
    LET sides == { e.side : e \in { x \in tooth_dict : x.tooth = tooth } }
        date(side) == (CHOOSE e \in tooth_dict : e.tooth = tooth /\ e.side = side).date
    IN  IF "P" \in sides /\ "B" \in sides
        THEN IF date("P") = date("B")
             THEN S_Tooth \o tooth \o S_BandP \o date("P")
             ELSE S_Tooth \o tooth \o S_OpenB \o date("B") \o S_MidP \o date("P") \o S_Close
        ELSE IF "P" \in sides THEN S_Tooth \o tooth \o S_OnlyP \o date("P")
        ELSE S_Tooth \o tooth \o S_OnlyB \o date("B")

\* aggregate_column(column_name) on the rows of one ResearchID
aggregate_column(group, kind) ==
    LET unique_entries == SelectSeq(group, LAMBDA row : notna(row.date))
        tooth_dict == scan_rows({}, unique_entries, 1, kind)
        teeth == sorted({ e.tooth : e \in tooth_dict })
        formatted_teeth == [k \in DOMAIN teeth |-> format_tooth(tooth_dict, teeth[k])]
    IN  strip_chars(join(formatted_teeth, S_br), {",", " "})

\* combined_df.groupby('ResearchID').apply(aggregate_issues).reset_index()
aggregate(df) ==
    LET ids == sorted({ df[k].id : k \in DOMAIN df })
    IN  [g \in DOMAIN ids |->
            [id |-> ids[g],
             fields |-> [kind \in IssueKinds |->
                aggregate_column(SelectSeq(df, LAMBDA row : row.id = ids[g]), kind)]]]

\* every row has been through record_cells: the summary table
Aggregate ==
    /\ pc = "cleaned"
    /\ cursor > Len(combined_df)
    /\ summary_df' = aggregate(combined_df)
    /\ pc' = "aggregated"
    /\ UNCHANGED <<pipeline, table, pool, buckets, pickle_df, missing_df, combined_df,
                   cursor, text, verdict>>

(***************************************************************************)
(* The whole pipeline on one patient: pockets_snapshot.py, the hand-off    *)
(* table, then cross_validation.py.                                        *)
(***************************************************************************)
Tooth14 == <<"1", "4">>
Tooth15 == <<"1", "5">>

ChartDates == {Timestamp(D1), Timestamp(D3), NaT, BadDate}

Visits == [id : {R1}, date : ChartDates, cells : [column_range -> {NaN, T345, Tabc}]]

\* the items of a Missing-Log narrative: 'date - T14 ...' or 'date - Tooth 14 ...'
LogItems == {[date |-> strftime(D1), form |-> "T",     tooth |-> Tooth14],
             [date |-> strftime(D2), form |-> "Tooth", tooth |-> Tooth14],
             [date |-> strftime(D1), form |-> "Tooth", tooth |-> Tooth15]}

\* the narratives: 'No missing teeth' is the one without items
Logs == UNION { [1..n -> LogItems] : n \in 0..MaxLog }

\* missing_snapshots.pkl: no row for the patient, or one row with a narrative
MissingTables == {<<>>} \cup { <<[id |-> R1, missing_issues |-> Narrative(l)]>> : l \in Logs }

Init ==
    /\ pc = "load"
    /\ pipeline = "pockets"
    /\ table \in [{1, 2} -> Visits]
    /\ missing_df \in MissingTables
    /\ pool = {}
    /\ buckets = NoBuckets
    /\ pickle_df = <<>> /\ combined_df = <<>>
    /\ cursor = 0 /\ summary_df = <<>>
    /\ text = <<>> /\ verdict = NoVerdict

Next ==
    \/ Load
    \/ Datatype1
    \/ Datatype2
    \/ Datatype3
    \/ Datatype4
    \/ Datatype5
    \/ Datatype6
    \/ Handoff
    \/ Merge
    \/ Clean
    \/ CleanRaises
    \/ RecordCells
    \/ RecordCellsRaises
    \/ Aggregate

Spec == Init /\ [][Next]_vars

(***************************************************************************)
(* cross_validation.py on the hand-off tables of a batch of visits.        *)
(***************************************************************************)
cells2(b, p) == [c \in column_range |-> IF c = Tooth14B THEN b ELSE p]

visit(id, date, b, p) == [id |-> id, date |-> date, cells |-> cells2(b, p)]

\* the visits a batch is drawn from: a patient seen on three days, and a second
\* patient with a malformed cell, an empty date and a date that is not one
CrossRows ==
    {visit(R1, Timestamp(D1), NaN, T345), visit(R1, Timestamp(D1), NaN, NaN),
     visit(R1, Timestamp(D2), T345, NaN),
     visit(R1, Timestamp(D3), NaN, T345), visit(R1, Timestamp(D3), NaN, NaN),
     visit(R2, Timestamp(D1), Tabc, NaN),
     visit(R2, NaT, NaN, NaN), visit(R2, BadDate, NaN, NaN)}

CrossTables == UNION { [1..n -> CrossRows] : n \in 1..MaxVisits }

CrossLog == <<[date |-> strftime(D2), form |-> "T", tooth |-> Tooth14]>>

CrossLogs == {<<>>, <<[id |-> R1, missing_issues |-> Narrative(CrossLog)]>>}

InitCross ==
    /\ pc = "main"
    /\ pipeline = "pockets"
    /\ table \in CrossTables
    /\ pickle_df = pockets_pickle(table)
    /\ missing_df \in CrossLogs
    /\ pool = {}
    /\ buckets = NoBuckets
    /\ combined_df = <<>>
    /\ cursor = 0 /\ summary_df = <<>>
    /\ text = <<>> /\ verdict = NoVerdict

NextCross ==
    \/ Merge
    \/ Clean
    \/ CleanRaises
    \/ RecordCells
    \/ RecordCellsRaises
    \/ Aggregate

SpecCross == InitCross /\ [][NextCross]_vars

\* the hand-off action writes the table pockets_pickle computes
HandoffAgrees == pc = "main" => pickle_df = pockets_pickle(table)

(***************************************************************************)
(* The parsing of the narratives: main up to the log entries, on one visit *)
(* and narratives of several items.                                        *)
(***************************************************************************)
MaxItems == 2

P1 == <<2021, 3, 4>>
P2 == <<2021, 5, 1>>

\* the ways an item names its tooth
ToothNames == {[form |-> "T",     tooth |-> Tooth14],
               [form |-> "Tooth", tooth |-> Tooth14],
               [form |-> "Tooth", tooth |-> <<"0", "9">>],
               [form |-> "T",     tooth |-> <<"9">>],
               [form |-> "T",     tooth |-> <<"1", "4", "1">>]}

ParserItems ==
    { [date |-> strftime(d), form |-> n.form, tooth |-> n.tooth] :
        d \in {P1, P2}, n \in ToothNames }

ParserLogs == UNION { [1..n -> ParserItems] : n \in 0..MaxItems }

InitParser ==
    /\ pc = "main"
    /\ pipeline = "pockets"
    /\ table = <<visit(R1, Timestamp(D1), NaN, NaN)>>
    /\ pickle_df = pockets_pickle(table)
    /\ missing_df \in {<<>>} \cup
            { <<[id |-> R1, missing_issues |-> Narrative(l)]>> : l \in ParserLogs }
    /\ pool = {}
    /\ buckets = NoBuckets
    /\ combined_df = <<>>
    /\ cursor = 0 /\ summary_df = <<>>
    /\ text = <<>> /\ verdict = NoVerdict

NextParser ==
    \/ Merge
    \/ Clean

SpecParser == InitParser /\ [][NextParser]_vars

(***************************************************************************)
(* Properties of the cross-validation and of the whole pipeline.           *)
(***************************************************************************)
\* the rows of combined_df that record_cells has been called on
recorded == { k \in DOMAIN combined_df :
                pc \in {"cleaned", "raised", "aggregated"} /\ k < cursor }

\* col is in the label of the given kind of the row
labelled(row, kind, col) ==
    \E k \in DOMAIN split(row.labels[kind], S_Comma) :
        split(row.labels[kind], S_Comma)[k] = col

\* the narratives the specifications draw from, with their texts
KnownLogs == Logs \cup {CrossLog} \cup ParserLogs

Rendered == { [items |-> l, text |-> narrative_text(l)] : l \in KnownLogs }

\* the items a Missing Issues cell of missing_snapshots.pkl was written from
ItemsOf(missing_issues) ==
    IF missing_issues.isstr
    THEN (CHOOSE r \in Rendered : r.text = missing_issues.text).items
    ELSE <<>>

\* an item is a log entry when it names the tooth in words, or by a code of
\* one or two digits
IsEntry(it) == it.form = "Tooth" \/ Len(it.tooth) <= 2

\* the log entries of a sequence of items, in the order of the items
Expected(items) ==
    [k \in DOMAIN SelectSeq(items, IsEntry) |->
        [date  |-> strptime(SelectSeq(items, IsEntry)[k].date),
         tooth |-> SelectSeq(items, IsEntry)[k].tooth]]

\* the Missing-Log entries of a patient, read off missing_snapshots.pkl
LogEntries(id) ==
    UNION { { Expected(ItemsOf(missing_df[j].missing_issues))[n] :
                n \in DOMAIN Expected(ItemsOf(missing_df[j].missing_issues)) } :
            j \in { r \in DOMAIN missing_df : missing_df[r].id = id } }

\* calendar order of dates
Ordinal(d) == 372 * d[1] + 31 * d[2] + d[3]

ToothOf(col) == SubSeq(col, 7, 8)

\* CellState of the data model, by the validator's contract
Malformed(cell) == notna(cell) /\ ~ThreeIntegers(strip(cell))

\* the log has an entry for the tooth of col dated on or before the visit
ConfirmedBy(row, col) ==
    \E e \in LogEntries(row.id) :
        e.tooth = ToothOf(col) /\ Ordinal(e.date) <= Ordinal(strptime(row.date))

\* the patient of the end-to-end scenario: visits 2020-01-01 (Tooth 14 B null)
\* and 2020-06-01 (Tooth 14 B "3 4 5"), all the other cells well formed, no log
\* entry for tooth 14
R1Scenario ==
    /\ \E i, j \in DOMAIN table :
        /\ i # j
        /\ table[i] = visit(R1, Timestamp(D1), NaN, T345)
        /\ table[j] = visit(R1, Timestamp(D3), T345, T345)
    /\ \A e \in LogEntries(R1) : e.tooth # Tooth14

Tooth14OnlyB == S_Tooth \o Tooth14 \o S_OnlyB \o strftime(D1)

\* C5: the whole pipeline on the scenario patient R1 labels the first visit
\* MissingNotRecorded for "Tooth 14 B", leaves the second visit without a
\* label, and aggregates "But Not In Patient Report" to
\* "Tooth 14 - Only B - 2020-01-01".
C5_EndToEnd ==
    (pc = "aggregated" /\ R1Scenario) =>
        /\ \E k \in DOMAIN combined_df :
            /\ combined_df[k].date = strftime(D1)
            /\ combined_df[k].labels.missing_pockets_not_record = Tooth14B
        /\ \A k \in DOMAIN combined_df :
            combined_df[k].date = strftime(D3) => combined_df[k].labels = NoLabels
        /\ \E g \in DOMAIN summary_df :
            /\ summary_df[g].id = R1
            /\ summary_df[g].fields.missing_pockets_not_record = Tooth14OnlyB

\* C6: a MalformedText cell whose tooth has a log entry dated on or before the
\* visit is in the IntegerFormatError label of the visit and never in the
\* ConfirmedMissingAndRecorded label.
C6_MalformedBeforeConfirmed ==
    \A k \in recorded : \A col \in column_range :
        (Malformed(combined_df[k].cells[col]) /\ ConfirmedBy(combined_df[k], col))
        => /\ labelled(combined_df[k], "integer_error", col)
           /\ ~labelled(combined_df[k], "missing_pockets_and_record", col)

C6_Witness ==
    \E k \in recorded :
        /\ Malformed(combined_df[k].cells[Tooth14B])
        /\ ConfirmedBy(combined_df[k], Tooth14B)
        /\ labelled(combined_df[k], "integer_error", Tooth14B)

\* C7: for a cell that is not MalformedText, a log entry for the tooth dated
\* exactly on the visit's ChartDate gives ConfirmedMissingAndRecorded; when
\* every log entry for the tooth is dated after the ChartDate, a null cell gives
\* MissingOtherIssue and never ConfirmedMissingAndRecorded.
C7_InclusiveDate ==
    \A k \in recorded : \A col \in column_range :
        LET row == combined_df[k]
            entries == { e \in LogEntries(row.id) : e.tooth = ToothOf(col) }
        IN  /\ ( /\ ~Malformed(row.cells[col])
                 /\ \E e \in entries : e.date = strptime(row.date) )
               => labelled(row, "missing_pockets_and_record", col)
            /\ ( /\ entries # {}
                 /\ \A e \in entries : Ordinal(e.date) > Ordinal(strptime(row.date))
                 /\ isna(row.cells[col]) )
               => /\ labelled(row, "missing_pockets_other_issue", col)
                  /\ ~labelled(row, "missing_pockets_and_record", col)

C7_Witness ==
    \E k \in recorded :
        /\ isna(combined_df[k].cells[Tooth14B])
        /\ \E e \in LogEntries(combined_df[k].id) :
            e.tooth = Tooth14 /\ e.date = strptime(combined_df[k].date)
        /\ labelled(combined_df[k], "missing_pockets_and_record", Tooth14B)

\* C8: a visit whose ChartDate does not parse gets four empty labels and the
\* run goes on to the summary: nothing is raised.
C8_UnparseableDateNoRaise ==
    /\ pc # "raised"
    /\ pc = "aggregated" =>
        \A k \in DOMAIN combined_df :
            isna(combined_df[k].date) => combined_df[k].labels = NoLabels

\* the column of a tooth and a side
Column(tooth, side) == S_Tooth \o tooth \o <<" ", side>>

\* the visits of the patient whose label of the kind names the tooth and side
carriers(id, kind, tooth, side) ==
    { k \in DOMAIN combined_df :
        combined_df[k].id = id /\ labelled(combined_df[k], kind, Column(tooth, side)) }

\* the ChartDate of the chronologically first of these visits
first_dates(id, kind, tooth, side) ==
    { combined_df[k].date : k \in
        { c \in carriers(id, kind, tooth, side) :
            \A o \in carriers(id, kind, tooth, side) :
                Ordinal(strptime(combined_df[c].date)) <= Ordinal(strptime(combined_df[o].date)) } }

ChartDateTexts == {strftime(D1), strftime(D2), strftime(D3)}

\* the dates an aggregated field reports for the tooth and side
reported(field, tooth, side) ==
    { d \in ChartDateTexts :
        \E n \in DOMAIN split(field, S_br) :
            LET line == split(field, S_br)[n]
            IN  \/ line = S_Tooth \o tooth \o S_BandP \o d
                \/ line = S_Tooth \o tooth \o <<" ", "-", " ", "O", "n", "l", "y", " ", side,
                                                " ", "-", " ">> \o d
                \/ /\ startswith(line, S_Tooth \o tooth \o <<" ">>)
                   /\ contains(line, <<"(", side, " ", "-", " ">> \o d \o <<")">>) }

\* C9: for every patient, issue kind, tooth and side, the aggregated summary
\* reports exactly the ChartDate of the chronologically first visit of the
\* patient whose label of that kind names the tooth and side.
C9_FirstOccurrence ==
    pc = "aggregated" =>
        \A g \in DOMAIN summary_df : \A kind \in IssueKinds :
            \A tooth \in {Tooth14, Tooth15} : \A side \in {"B", "P"} :
                reported(summary_df[g].fields[kind], tooth, side)
                    = first_dates(summary_df[g].id, kind, tooth, side)

\* visits 1 and 3 of three carry Tooth 14 B, read from a table that is not in
\* date order
C9_Witness ==
    /\ pc = "aggregated"
    /\ Len(combined_df) = 3
    /\ pickle_df[1].date = Timestamp(D3)
    /\ \A k \in 1..3 : combined_df[k].id = R1
    /\ combined_df[1].date = strftime(D1) /\ combined_df[2].date = strftime(D2)
    /\ combined_df[3].date = strftime(D3)
    /\ carriers(R1, "missing_pockets_not_record", Tooth14, "B") = {1, 3}
    /\ reported(summary_df[1].fields.missing_pockets_not_record, Tooth14, "B")
            = {strftime(D1)}

C12_InconsistentBucket ==
    pc = "classified" =>
        \A id \in unique_ids(table, buckets.inconsistent_missing_data) :
            /\ Cardinality(visits_of(id)) > 1
            /\ \E col \in column_range : Mixed(id, col)

C12_Witness ==
    /\ pc = "classified"
    /\ R1 \in unique_ids(table, buckets.inconsistent_missing_data)
    /\ Mixed(R1, Tooth14B)
    /\ ~Mixed(R1, Tooth14P)

EntriesFor(row, col) == { e \in LogEntries(row.id) : e.tooth = ToothOf(col) }

\* the labels of the row that name the column
kinds_of(row, col) == { kind \in IssueKinds : labelled(row, kind, col) }

\* C14: for a null cell without a confirming log entry, the column is
\* labelled MissingNotRecorded iff the log has no entry for the tooth at any
\* date, and MissingOtherIssue iff the log has an entry for the tooth.
C14_NotRecordedOrOtherIssue ==
    \A k \in recorded : \A col \in column_range :
        LET row == combined_df[k]
        IN  (isna(row.cells[col]) /\ ~ConfirmedBy(row, col))
            => /\ labelled(row, "missing_pockets_not_record", col)
                    <=> EntriesFor(row, col) = {}
               /\ labelled(row, "missing_pockets_other_issue", col)
                    <=> EntriesFor(row, col) # {}

C14_Witness ==
    \E k \in recorded :
        /\ isna(combined_df[k].cells[Tooth14B])
        /\ ~ConfirmedBy(combined_df[k], Tooth14B)
        /\ EntriesFor(combined_df[k], Tooth14B) # {}
        /\ labelled(combined_df[k], "missing_pockets_other_issue", Tooth14B)

\* C15: for a cell that is not MalformedText, the column is labelled
\* ConfirmedMissingAndRecorded iff the log has an entry for the tooth dated on
\* or before the visit, whether the cell is null or WellFormed.
C15_ConfirmedIff ==
    \A k \in recorded : \A col \in column_range :
        ~Malformed(combined_df[k].cells[col])
        => (labelled(combined_df[k], "missing_pockets_and_record", col)
                <=> ConfirmedBy(combined_df[k], col))

C15_Witness ==
    \E k \in recorded :
        /\ combined_df[k].cells[Tooth14B] = T345
        /\ ConfirmedBy(combined_df[k], Tooth14B)
        /\ labelled(combined_df[k], "missing_pockets_and_record", Tooth14B)

\* C16: every column of a processed visit is in at most one of the four
\* labels, and a column whose cell is WellFormed and has no confirming log
\* entry is in none.
C16_AtMostOneLabel ==
    \A k \in recorded : \A col \in column_range :
        /\ Cardinality(kinds_of(combined_df[k], col)) <= 1
        /\ ( /\ notna(combined_df[k].cells[col])
             /\ ~Malformed(combined_df[k].cells[col])
             /\ ~ConfirmedBy(combined_df[k], col) )
           => kinds_of(combined_df[k], col) = {}

C16_Witness ==
    \E k \in recorded :
        /\ combined_df[k].cells[Tooth14B] = T345
        /\ EntriesFor(combined_df[k], Tooth14B) # {}
        /\ kinds_of(combined_df[k], Tooth14B) = {}
        /\ Cardinality(kinds_of(combined_df[k], Tooth14P)) = 1

(***************************************************************************)
(* Properties of the parsing of the narratives.                            *)
(***************************************************************************)
\* "2021-03-04 - Tooth 14, 2021-05-01 - Tooth 09" gives
\* [(2021-03-04, "14"), (2021-05-01, "09")]
ParserExample ==
    extract_missing_teeth_with_dates(
        Str(replace_tooth_codes(<<"2", "0", "2", "1", "-", "0", "3", "-", "0", "4", " ", "-", " ", "T", "o", "o", "t", "h", " ", "1", "4", ",", " ", "2", "0", "2", "1", "-", "0", "5", "-", "0", "1", " ", "-", " ", "T", "o", "o", "t", "h", " ", "0", "9">>)))
    = <<[date |-> P1, tooth |-> Tooth14], [date |-> P2, tooth |-> <<"0", "9">>]>>

\* C17: after the rewriting of the tooth codes, the parser returns one
\* (date, tooth) pair for every 'YYYY-MM-DD - Tooth NN' of the narrative, in
\* the order of the text, neither sorted by date nor deduplicated; a missing
\* narrative gives the empty list.
C17_LogParser ==
    /\ pc = "cleaned" =>
        \A k \in DOMAIN combined_df :
            combined_df[k].missing_teeth_with_dates
                = IF \E j \in DOMAIN missing_df : missing_df[j].id = combined_df[k].id
                  THEN Expected(ItemsOf(missing_df[1].missing_issues))
                  ELSE <<>>
    /\ ParserExample

\* two entries, the later date first and its tooth written as a code
C17_Witness ==
    /\ pc = "cleaned"
    /\ missing_df # <<>>
    /\ Len(ItemsOf(missing_df[1].missing_issues)) = 2
    /\ ItemsOf(missing_df[1].missing_issues)[1].form = "T"
    /\ combined_df[1].missing_teeth_with_dates
            = <<[date |-> P2, tooth |-> Tooth14], [date |-> P1, tooth |-> Tooth14]>>

(***************************************************************************)
(* cross_validation.py on a chart whose columns are of several teeth, with *)
(* tooth numbers of one and of two digits.                                 *)
(***************************************************************************)
Tooth9B  == <<"T", "o", "o", "t", "h", " ", "9", " ", "B">>
Tooth9P  == <<"T", "o", "o", "t", "h", " ", "9", " ", "P">>
Tooth10P == <<"T", "o", "o", "t", "h", " ", "1", "0", " ", "P">>

\* a column of the chart whose label names no tooth number
ToothXB  == <<"T", "o", "o", "t", "h", " ", "X", " ", "B">>

TeethColumns == {Tooth9B, Tooth9P, Tooth10P, Tooth14B, ToothXB}

\* the visits of a patient seen once, with an empty cell and no malformed one:
\* pockets_snapshot.py hands such a visit off as Single Observation Data
TeethVisits ==
    { v \in [id : {R1}, date : {Timestamp(D1), Timestamp(D3)},
             cells : [TeethColumns -> {NaN, T345}]] :
        \E c \in TeethColumns : isna(v.cells[c]) }

TeethLogs ==
    {<<>>,
     <<[id |-> R1,
        missing_issues |-> Narrative(<<[date |-> strftime(D2), form |-> "T",
                                        tooth |-> <<"9">>]>>)]>>}

InitTeeth ==
    /\ pc = "main"
    /\ pipeline = "pockets"
    /\ table \in { <<v>> : v \in TeethVisits }
    /\ pickle_df = [k \in DOMAIN table |->
                        [id |-> table[k].id, date |-> table[k].date,
                         cells |-> table[k].cells,
                         Data_Type |-> "Single Observation Data"]]
    /\ missing_df \in TeethLogs
    /\ pool = {}
    /\ buckets = NoBuckets
    /\ combined_df = <<>>
    /\ cursor = 0 /\ summary_df = <<>>
    /\ text = <<>> /\ verdict = NoVerdict

NextTeeth ==
    \/ Merge
    \/ Clean
    \/ RecordCells
    \/ Aggregate

SpecTeeth == InitTeeth /\ [][NextTeeth]_vars

(***************************************************************************)
(* backup.py: the older script.  Its merge, cleaning and aggregation are   *)
(* those of cross_validation.py; its record_cells is its own.              *)
(***************************************************************************)
\* the body of the loop over the columns in backup.py: the malformed check adds
\* the column and goes on, the scan of the entries ends the column when it
\* finds one (found), and an empty cell is looked at otherwise
backup_cell_issues(row, col) ==
    LET tooth_num == search_tooth(col)
        cell_value == row.cells[col]
        found == \E k \in DOMAIN row.missing_teeth_with_dates :
                    /\ row.missing_teeth_with_dates[k].tooth = tooth_num
                    /\ date_le(row.missing_teeth_with_dates[k].date, strptime(row.date))
    IN  (IF notna(cell_value) /\ ~standard_pattern(str(cell_value))
         THEN {"integer_error"} ELSE {})
        \cup
        (IF found THEN {"missing_pockets_and_record"}
         ELSE IF isna(cell_value)
              THEN (IF ~\E k \in DOMAIN row.missing_teeth_with_dates :
                            row.missing_teeth_with_dates[k].tooth = tooth_num
                    THEN {"missing_pockets_not_record"}
                    ELSE {"missing_pockets_other_issue"})
              ELSE {})

\* the four sets after the loop of backup.py
backup_issue_set(row, kind) ==
    { col \in DOMAIN row.cells : is_tooth_column(col) /\ kind \in backup_cell_issues(row, col) }

\* the orders the four sets of backup.py can be iterated in
backup_iteration_orders(row) ==
    { [missing_pockets_and_record |-> a, missing_pockets_not_record |-> b,
       missing_pockets_other_issue |-> c, integer_error |-> d] :
        a \in iterations(backup_issue_set(row, "missing_pockets_and_record")),
        b \in iterations(backup_issue_set(row, "missing_pockets_not_record")),
        c \in iterations(backup_issue_set(row, "missing_pockets_other_issue")),
        d \in iterations(backup_issue_set(row, "integer_error")) }

\* re.search(...).group(1) on a label without number, or strptime on an empty date
backup_raises(row) ==
    \/ isna(row.date)
    \/ \E col \in DOMAIN row.cells : is_tooth_column(col) /\ search_tooth(col) = None

\* combined_df.apply(record_cells, axis=1) of backup.py: the call for the row at
\* the cursor
BackupRecordCells ==
    /\ pipeline = "backup"
    /\ pc = "cleaned"
    /\ cursor \in DOMAIN combined_df
    /\ ~backup_raises(combined_df[cursor])
    /\ \E order \in backup_iteration_orders(combined_df[cursor]) :
        combined_df' = [combined_df EXCEPT
                            ![cursor].labels = record_cells(combined_df[cursor], order)]
    /\ cursor' = cursor + 1
    /\ UNCHANGED <<pc, pipeline, table, pool, buckets, pickle_df, missing_df,
                   summary_df, text, verdict>>

BackupRecordCellsRaises ==
    /\ pipeline = "backup"
    /\ pc = "cleaned"
    /\ cursor \in DOMAIN combined_df
    /\ backup_raises(combined_df[cursor])
    /\ pc' = "raised"
    /\ UNCHANGED <<pipeline, table, pool, buckets, pickle_df, missing_df, combined_df,
                   cursor, summary_df, text, verdict>>

\* the visits of R1 the older script is run on
BackupRows ==
    { visit(R1, d, b, p) : d \in {Timestamp(D1), Timestamp(D3), NaT},
                           b \in {NaN, T345, Tabc}, p \in {NaN, Tabc} }

InitBackup ==
    /\ pc = "main"
    /\ pipeline = "backup"
    /\ table \in UNION { [1..n -> BackupRows] : n \in 1..MaxRows }
    /\ pickle_df = pockets_pickle(table)
    /\ missing_df \in CrossLogs
    /\ pool = {}
    /\ buckets = NoBuckets
    /\ combined_df = <<>>
    /\ cursor = 0 /\ summary_df = <<>>
    /\ text = <<>> /\ verdict = NoVerdict

NextBackup ==
    \/ Merge
    \/ Clean
    \/ BackupRecordCells
    \/ BackupRecordCellsRaises
    \/ Aggregate

SpecBackup == InitBackup /\ [][NextBackup]_vars

(***************************************************************************)
(* Properties of the aggregated fields.                                    *)
(***************************************************************************)
\* the lines of an aggregated field that are about the tooth
lines_of(field, tooth) ==
    { n \in DOMAIN split(field, S_br) :
        startswith(split(field, S_br)[n], S_Tooth \o tooth \o <<" ">>) }

\* the one element of a set of one element
the(S) == CHOOSE x \in S : TRUE

\* the entry the three forms prescribe for first-occurrence dates b of side B
\* and p of side P (sets of at most one date)
EntryForm(tooth, b, p) ==
    IF b # {} /\ p # {}
    THEN IF b = p
         THEN S_Tooth \o tooth \o <<" ", "-", " ", "B", " ", "&", " ", "P", " ", "-", " ">>
                \o the(b)
         ELSE S_Tooth \o tooth \o <<" ", "-", " ", "(", "B", " ", "-", " ">> \o the(b)
                \o <<")", " ", "/", " ", "(", "P", " ", "-", " ">> \o the(p) \o <<")">>
    ELSE IF b # {}
         THEN S_Tooth \o tooth \o <<" ", "-", " ", "O", "n", "l", "y", " ", "B", " ", "-", " ">>
                \o the(b)
         ELSE S_Tooth \o tooth \o <<" ", "-", " ", "O", "n", "l", "y", " ", "P", " ", "-", " ">>
                \o the(p)

\* C18: in every aggregated field a tooth has one entry, of the form
\* 'B & P' with one date when both sides have the same first-occurrence date,
\* both sides with their own dates when the dates differ, 'Only B' or 'Only P'
\* when one side has a first-occurrence date; a tooth without one has no entry.
C18_EntryForms ==
    pc = "aggregated" =>
        \A g \in DOMAIN summary_df : \A kind \in IssueKinds : \A tooth \in {Tooth14, Tooth15} :
            LET field == summary_df[g].fields[kind]
                b == first_dates(summary_df[g].id, kind, tooth, "B")
                p == first_dates(summary_df[g].id, kind, tooth, "P")
            IN  IF b = {} /\ p = {} THEN lines_of(field, tooth) = {}
                ELSE /\ Cardinality(lines_of(field, tooth)) = 1
                     /\ split(field, S_br)[the(lines_of(field, tooth))]
                            = EntryForm(tooth, b, p)

\* R1 has an entry with two dates, R2 an 'Only P' and an 'Only B' entry
C18_Witness ==
    /\ pc = "aggregated"
    /\ \E g, h \in DOMAIN summary_df :
        /\ summary_df[g].id = R1
        /\ summary_df[g].fields.missing_pockets_not_record
                = EntryForm(Tooth14, {strftime(D1)}, {strftime(D3)})
        /\ summary_df[h].id = R2
        /\ summary_df[h].fields.missing_pockets_not_record
                = EntryForm(Tooth14, {}, {strftime(D1)})
        /\ summary_df[h].fields.integer_error
                = EntryForm(Tooth14, {strftime(D1)}, {})

\* the tooth number a line of an aggregated field starts with
LineTooth(line) ==
    IF line[8] \in Digit THEN Num2(line, 7) ELSE DigitVal(line[7])

\* C19: in every aggregated field the teeth are listed in ascending numeric
\* order of tooth number, for tooth numbers of one or of two digits.
C19_NumericOrder ==
    pc = "aggregated" =>
        \A g \in DOMAIN summary_df : \A kind \in IssueKinds :
            LET field == summary_df[g].fields[kind]
                lines == split(field, S_br)
            IN  field # <<>> =>
                    \A i, j \in DOMAIN lines :
                        i < j => LineTooth(lines[i]) < LineTooth(lines[j])

(***************************************************************************)
(* The tables as functions of the input tables.                            *)
(***************************************************************************)
\* the label fields of a visit, from the visit alone
labels_of(row) ==
    [kind \in IssueKinds |-> join(sorted(issue_set(row, kind)), S_Comma)]

\* the labelled table, from the hand-off table and the narratives
labelled_of(handoff, logs) ==
    LET df == clean(merge(handoff, logs))
    IN  [k \in DOMAIN df |-> [df[k] EXCEPT !.labels = labels_of(df[k])]]

\* C20: the category of every patient, the four label texts of every visit
\* and the aggregated summary texts are a function of the input tables: every
\* run on the same chart table and narratives writes the same tables, in
\* whatever order the sets of column names are iterated.
C20_Deterministic ==
    /\ pc \in {"main", "merged", "cleaned", "aggregated"}
            => pickle_df = pockets_pickle(table)
    /\ pc \in {"cleaned", "aggregated"}
            => \A k \in recorded : combined_df[k].labels = labels_of(combined_df[k])
    /\ pc = "aggregated"
            => /\ combined_df = labelled_of(pockets_pickle(table), missing_df)
               /\ summary_df = aggregate(combined_df)

\* a run has ended with a label of two columns, which a set holds in two orders
C20_Witness ==
    /\ pc = "aggregated"
    /\ \E k \in DOMAIN combined_df :
        /\ combined_df[k].labels.missing_pockets_not_record
                = Tooth14B \o S_Comma \o Tooth14P
        /\ Cardinality(iterations(issue_set(combined_df[k], "missing_pockets_not_record"))) = 2
    /\ summary_df # <<>>

(***************************************************************************)
(* Patients without visits.                                                *)
(***************************************************************************)
\* the visits the classifier finds for the patient of row i of the table
visits_found(i) == group_of(table, DOMAIN table, table[i].id)

\* C21: a patient for whom the classifier finds no visit makes it fail: the
\* script does not run to its end and the row is put in no bucket.
C21_ZeroVisitsFails ==
    pc = "classified" =>
        \A i \in DOMAIN table :
            visits_found(i) = {} => \A b \in BucketNames : i \notin buckets[b]

(***************************************************************************)
(* The pool of the sequential classification.                              *)
(***************************************************************************)
\* the buckets of Datatype 1 to 5
Assigned == BucketNames \ {"remaining_data"}

\* no row of the pool is of a patient of a bucket already filled
PoolExcludesAssigned ==
    \A b \in Assigned : \A i \in pool : table[i].id \notin unique_ids(table, buckets[b])

\* a step after the load leaves the pool a subset of the pool before it, and a
\* bucket it fills holds rows of the pool before it only
PoolShrinks ==
    pc # "load" =>
        /\ pool' \subseteq pool
        /\ \A b \in BucketNames : buckets'[b] # buckets[b] => buckets'[b] \subseteq pool

\* C22: after each of Datatype 1 to 5 the pool holds no row of a patient
\* assigned to an earlier category, the pool only shrinks, and each membership
\* test selects among the rows of the pool as it stands before its step.
C22_SequentialPartition == []PoolExcludesAssigned /\ [][PoolShrinks]_vars

\* Datatype 2 has run after Datatype 1: R1 is assigned to No Missing Data and
\* has left the pool, R2 has been tested on the smaller pool and stays in it
C22_Witness ==
    /\ pc = "datatype3"
    /\ unique_ids(table, buckets.no_missing_data) = {R1}
    /\ buckets.systematic_missing_data = {}
    /\ pool # {}
    /\ pool # DOMAIN table

(***************************************************************************)
(* The validators of the two classification scripts.                       *)
(***************************************************************************)
\* C23: the recessions pattern accepts exactly the texts the pockets pattern
\* accepts, three 1-2-digit integers separated by one or two whitespace
\* characters: a text with three or more spaces between two integers is
\* accepted by neither.
C23_SameValidator ==
    pc = "done" =>
        /\ verdict.recessions = verdict.pockets
        /\ verdict.recessions = ThreeIntegers(strip(text))

(***************************************************************************)
(* Columns without a tooth number.                                         *)
(***************************************************************************)
\* the label is of a tooth-site column and 'Tooth (\d{1,2})' is found nowhere in it
Unnumbered(col) ==
    /\ startswith(col, <<"T", "o", "o", "t", "h">>)
    /\ contains(col, <<" ", "P">>) \/ contains(col, <<" ", "B">>)
    /\ ~\E i \in 1..Len(col) :
            /\ i + 6 <= Len(col)
            /\ SubSeq(col, i, i + 5) = <<"T", "o", "o", "t", "h", " ">>
            /\ col[i + 6] \in Digit

\* C24: record_cells skips a tooth-site column from whose label no tooth
\* number can be extracted: the column is in none of the four labels, the run
\* does not raise, and the other columns of the row are labelled all the same
\* (an empty cell of a numbered column is in one of the labels).
C24_UnnumberedSkipped ==
    /\ pc # "raised"
    /\ \A k \in recorded : \A col \in DOMAIN combined_df[k].cells :
        IF Unnumbered(col)
        THEN \A kind \in IssueKinds : ~labelled(combined_df[k], kind, col)
        ELSE isna(combined_df[k].cells[col])
                => \E kind \in IssueKinds : labelled(combined_df[k], kind, col)

\* a visit with an empty cell in the column without number and in a numbered
\* column has been labelled
C24_Witness ==
    /\ pc = "aggregated"
    /\ \E k \in recorded :
        /\ isna(combined_df[k].cells[ToothXB])
        /\ isna(combined_df[k].cells[Tooth14B])
        /\ combined_df[k].labels.missing_pockets_not_record = Tooth14B

(***************************************************************************)
(* The frame of record_cells.                                              *)
(***************************************************************************)
\* a step that processes the visit at the cursor
RecordStep == pc = "cleaned" /\ pc' = "cleaned" /\ cursor' = cursor + 1

\* C25: processing a visit writes the four label fields of that visit only:
\* its ResearchID, chart date, cells, narrative, log entries and Data_Type, and
\* all fields of all other visits, are as before.
C25_FrameOfRecordCells ==
    [][RecordStep =>
        /\ DOMAIN combined_df' = DOMAIN combined_df
        /\ \A k \in DOMAIN combined_df :
            IF k = cursor
            THEN [combined_df'[k] EXCEPT !.labels = combined_df[k].labels] = combined_df[k]
            ELSE combined_df'[k] = combined_df[k]]_vars

\* the second visit of R1 has been processed and has got labels, with the
\* labels of the first visit, which are different, still in place
C25_Witness ==
    /\ pc = "cleaned"
    /\ cursor = 3
    /\ combined_df[1].id = R1 /\ combined_df[2].id = R1
    /\ combined_df[1].labels.missing_pockets_not_record = Tooth14B
    /\ combined_df[2].labels.missing_pockets_not_record = Tooth14B \o S_Comma \o Tooth14P

(***************************************************************************)
(* The sixth bucket.                                                       *)
(***************************************************************************)
\* the patients Datatype 1 and Datatype 2 have not taken
after_systematic ==
    patients \ (unique_ids(table, buckets.no_missing_data)
                    \cup unique_ids(table, buckets.systematic_missing_data))

\* C26: in both pipelines, on a table whose rows all have a ResearchID, the
\* sixth bucket is empty: after Datatype 1 and 2 a patient with more than one
\* visit passes exactly one of is_fully_consistent_missing_teeth and
\* is_inconsistent_missing_teeth and is in the bucket of that test, and a
\* patient with one visit is in the Single Observation bucket.
C26_RemainingEmpty ==
    /\ pc = "datatype3" =>
        \A i \in pool :
            Cardinality(visits_of(table[i].id)) > 1 =>
                is_fully_consistent_missing_teeth(table, pool, table[i])
                    # is_inconsistent_missing_teeth(table, pool, table[i])
    /\ pc = "classified" =>
        /\ buckets.remaining_data = {}
        /\ \A id \in after_systematic :
            IF Cardinality(visits_of(id)) > 1
            THEN (id \in unique_ids(table, buckets.consistent_missing_data))
                    # (id \in unique_ids(table, buckets.inconsistent_missing_data))
            ELSE id \in unique_ids(table, buckets.single_observation_data)

\* two patients of one visit each have passed Datatype 1 and 2 and are both
\* in the Single Observation bucket
C26_Witness ==
    /\ pc = "classified"
    /\ buckets.remaining_data = {}
    /\ after_systematic = {R1, R2}
    /\ unique_ids(table, buckets.single_observation_data) = {R1, R2}

(***************************************************************************)
(* The rows of the hand-off table.                                         *)
(***************************************************************************)
\* a row of the hand-off table without its Data_Type
visit_of(row) == [id |-> row.id, date |-> row.date, cells |-> row.cells]

\* the number of rows of the table df that are the visit v
copies(df, v) == Cardinality({ k \in DOMAIN df : visit_of(df[k]) = v })

\* C27: the hand-off table of the pockets classification holds every visit
\* row of the input table exactly once: none is dropped, none is duplicated.
C27_HandoffKeepsVisits ==
    pc = "main" =>
        /\ Len(pickle_df) = Len(table)
        /\ \A j \in DOMAIN table : copies(pickle_df, table[j]) = copies(table, table[j])

(***************************************************************************)
(* The labels of the visits of one patient.                                *)
(***************************************************************************)
\* the columns of the same tooth as col
same_tooth(row, col) ==
    { c \in DOMAIN row.cells : is_tooth_column(c) /\ search_tooth(c) = search_tooth(col) }

\* C28: if a visit of a patient labels a column of a tooth as missing and not
\* recorded, no visit of that patient labels a column of that tooth (either
\* side) as confirmed missing or as missing with other issues.
C28_NotRecordedExcludesLog ==
    \A k, j \in recorded :
        combined_df[k].id = combined_df[j].id =>
            \A col \in DOMAIN combined_df[k].cells :
                labelled(combined_df[k], "missing_pockets_not_record", col) =>
                    \A c \in same_tooth(combined_df[j], col) :
                        /\ ~labelled(combined_df[j], "missing_pockets_and_record", c)
                        /\ ~labelled(combined_df[j], "missing_pockets_other_issue", c)

\* both visits of R1 are labelled, the narrative has an entry (of another
\* tooth), side B is not recorded at one visit and side P at the other
C28_Witness ==
    /\ pc = "aggregated"
    /\ Len(combined_df) = 2
    /\ combined_df[1].missing_teeth_with_dates # <<>>
    /\ combined_df[1].labels.missing_pockets_not_record = Tooth14B
    /\ combined_df[2].labels.missing_pockets_not_record = Tooth14P

(***************************************************************************)
(* Confirmation over the visits of a patient.                              *)
(***************************************************************************)
\* C29: if a column is labelled confirmed missing at a visit of a patient, it
\* is labelled confirmed missing or integer format error at every visit of
\* that patient with the same or a later chart date.
C29_ConfirmationMonotone ==
    \A k, j \in recorded :
        ( /\ combined_df[k].id = combined_df[j].id
          /\ ~str_lt(combined_df[j].date, combined_df[k].date) ) =>
            \A col \in DOMAIN combined_df[k].cells :
                labelled(combined_df[k], "missing_pockets_and_record", col) =>
                    \/ labelled(combined_df[j], "missing_pockets_and_record", col)
                    \/ labelled(combined_df[j], "integer_error", col)

\* side P of tooth 14 is confirmed missing at the visit of 2020-01-02, the date
\* of the log entry, and at the visit of 2020-06-01
C29_Witness ==
    /\ pc = "aggregated"
    /\ \E k, j \in DOMAIN combined_df :
        /\ combined_df[k].id = R1 /\ combined_df[j].id = R1
        /\ combined_df[k].date = strftime(D2)
        /\ combined_df[j].date = strftime(D3)
        /\ labelled(combined_df[k], "missing_pockets_and_record", Tooth14P)
        /\ labelled(combined_df[j], "missing_pockets_and_record", Tooth14P)

(***************************************************************************)
(* The two versions of record_cells.                                       *)
(***************************************************************************)
\* C30: for every visit row, the four issue sets the record_cells of
\* backup.py writes are the four sets the record_cells of cross_validation.py
\* computes for that row.
C30_SameLabelSets ==
    pipeline = "backup" =>
        \A k \in recorded : \A kind \in IssueKinds :
            { col \in DOMAIN combined_df[k].cells : labelled(combined_df[k], kind, col) }
                = issue_set(combined_df[k], kind)

====
